---- MODULE Spec2Model ----
(***************************************************************************)
(* The sales ingestion pipeline of scripts/pipeline: decrypt (1), extract  *)
(* to JSON (2), load into the relational store and archive (3), and the    *)
(* entry point that runs the three in sequence.                            *)
(*                                                                         *)
(* A directory is a function from the names it holds to their contents.    *)
(* A table is the sequence of its rows in insertion order; a row's id is   *)
(* its position (SERIAL).  Every await of a store call is one step.        *)
(***************************************************************************)
EXTENDS Integers, Sequences, FiniteSets, TLC

VARIABLES
    raw,          \* revenue-data/<stem>.xlsx
    dec,          \* revenue-data/<stem>-decrypted.xlsx
    processed,    \* revenue-data/processed/<stem>.json
    archived,     \* revenue-data/archived/<stem>.json
    env,          \* the directories that exist; whether DATABASE_URL is set; the
                  \* host's time zone
    orders,       \* table orders
    items,        \* table order_items
    categories,   \* table categories
    menus,        \* table menus
    ld,           \* the loader processes: locals of main() and importFile()
    pl,           \* the pipeline process: locals of runPipeline() and stages 1, 2
    obs           \* observations: budgets used, returns of importFile

fs    == <<raw, dec, processed, archived, env>>
store == <<orders, items, categories, menus>>
vars  == <<raw, dec, processed, archived, env, orders, items, categories, menus, ld, pl, obs>>

(***************************************************************************)
(* Bounds of the model.                                                    *)
(***************************************************************************)
MaxRecords == 2      \* records of one processed file
MaxRuns    == 2      \* runs of the loader / of the pipeline
MaxFaults  == 1      \* store or file-system calls that throw
MaxCrashes == 1      \* times a loader process is killed
MaxChars   == 5      \* characters of the string in a cell of a numeric column
MaxNameChars == 3    \* characters of the string in a cell of a text column

(***************************************************************************)
(* Values.                                                                 *)
(***************************************************************************)
Files     == {"a", "b"}
FileOrder == <<"a", "b">>
Procs     == {"p1", "p2"}
Branch    == "wangsimni"

Null  == [date |-> "null", time |-> "null"]
Epoch == [date |-> "1970-01-01", time |-> "00:00"]
At(d, t) == [date |-> d, time |-> t]

\* The rows a worksheet is made of, already under their field names.
RowA == [orderNumber |-> "A100", orderStartTime |-> At("2024-05-01", "09:00"),
         orderBaseDate |-> At("2024-05-01", "00:00"), orderChannel |-> "pos",
         paymentStatus |-> "done", category |-> "Drink", productName |-> "Cola",
         productPrice |-> 1000]
RowB == [orderNumber |-> "A100", orderStartTime |-> Null,
         orderBaseDate |-> At("2024-05-01", "00:00"), orderChannel |-> "app",
         paymentStatus |-> "cancel", category |-> "Drink", productName |-> "Cola",
         productPrice |-> 1000]
RowC == [orderNumber |-> "A100", orderStartTime |-> At("2024-05-02", "09:00"),
         orderBaseDate |-> At("2024-05-02", "00:00"), orderChannel |-> "pos",
         paymentStatus |-> "done", category |-> "Food", productName |-> "Cola",
         productPrice |-> 0 - 500]
RowD == [orderNumber |-> "A101", orderStartTime |-> At("2024-05-01", "09:00"),
         orderBaseDate |-> At("2024-05-01", "00:00"), orderChannel |-> "pos",
         paymentStatus |-> "done", category |-> "Drink", productName |-> "Beer",
         productPrice |-> 5000]
RecordPool == {RowA, RowB, RowC, RowD}

SeqsUpTo(S, n) == UNION {[1..k -> S] : k \in 0..n}
Contents == SeqsUpTo(RecordPool, MaxRecords) \ {<<>>}

Max(a, b) == IF a >= b THEN a ELSE b

\* Directory operations.
Put(dir, f, c) == [g \in DOMAIN dir \cup {f} |-> IF g = f THEN c ELSE dir[g]]
Del(dir, f)    == [g \in DOMAIN dir \ {f} |-> dir[g]]
Listing(dir)   == SelectSeq(FileOrder, LAMBDA f : f \in DOMAIN dir)
EmptyDir       == [g \in {} |-> <<>>]

\* REVENUE_DATA_DIR, PROCESSED_DIR (OUTPUT_DIR of stage 2), ARCHIVE_DIR
Dirs == {"revenue-data", "processed", "archived"}
\* fs.mkdirSync(dir, { recursive: true }) of a directory under revenue-data
MkDir(e, dir) == [e EXCEPT !.dirs = @ \cup {"revenue-data", dir}]
\* the environment of a deployment that has run before; the time zone of the host
\* is a fixed offset, in hours east of UTC
Deployed(dirs) == [dirs |-> dirs, databaseUrl |-> TRUE, timeZone |-> 9]

(***************************************************************************)
(* 3-import-to-db.js: importFile, grouping (lines 124-142).                *)
(***************************************************************************)
\* new Date(record.orderStartTime || record.orderBaseDate); new Date(null) is the epoch
OrderDateOf(record) ==
    IF record.orderStartTime # Null THEN record.orderStartTime
    ELSE IF record.orderBaseDate # Null THEN record.orderBaseDate
    ELSE Epoch

\* orderDate.toISOString().split('T')[0]
DateStr(orderDate) == orderDate.date

\* the same on a time value in hours since 1899-12-30T00:00Z: the number of the
\* UTC day
IsoDatePart(hours) == hours \div 24

\* the key without its date part
GroupKeyNumberOnly(record) == record.orderNumber

\* `${record.orderNumber}_${dateStr}`
GroupKey(record) == record.orderNumber \o "_" \o DateStr(OrderDateOf(record))

IndexOfKey(groups, key) ==
    IF \E n \in 1..Len(groups) : groups[n].key = key
    THEN CHOOSE n \in 1..Len(groups) : groups[n].key = key
    ELSE 0

RECURSIVE GroupRecords(_, _)
GroupRecords(records, groups) ==
    IF records = <<>> THEN groups
    ELSE LET record == Head(records)
             key    == GroupKey(record)
             n      == IndexOfKey(groups, key)
             opened == IF n # 0 THEN groups
                       ELSE Append(groups, [key          |-> key,
                                            orderNumber  |-> record.orderNumber,
                                            orderDate    |-> OrderDateOf(record),
                                            orderChannel |-> record.orderChannel,
                                            orderStatus  |-> record.paymentStatus,
                                            items        |-> <<>>])
             m      == IF n # 0 THEN n ELSE Len(opened)
         IN  GroupRecords(Tail(records),
                          [opened EXCEPT ![m].items = Append(@, record)])

OrderGroups(records) == GroupRecords(records, <<>>)

(***************************************************************************)
(* The store (prisma/migrations/20251210050200_normalized_schema).         *)
(***************************************************************************)
\* an Order row that takes its date, channel and status from the last record
\* of the group
OrderRowLast(grp) ==
    LET last == grp.items[Len(grp.items)]
    IN  [branchId |-> Branch, orderNumber |-> grp.orderNumber,
         orderDate |-> OrderDateOf(last), orderChannel |-> last.orderChannel,
         orderStatus |-> last.paymentStatus]

\* data of prisma.order.create (lines 172-178)
OrderRow(grp) ==
    [branchId |-> Branch, orderNumber |-> grp.orderNumber, orderDate |-> grp.orderDate,
     orderChannel |-> grp.orderChannel, orderStatus |-> grp.orderStatus]

\* data of prisma.orderItem.create (lines 202-214)
ItemRow(orderId, menuId, item) ==
    [orderId |-> orderId, menuId |-> menuId, unitPrice |-> item.productPrice]

\* prisma.order.findUnique on branchId_orderNumber_orderDate
FindOrder(branchId, orderNumber, orderDate) ==
    {n \in 1..Len(orders) : /\ orders[n].branchId = branchId
                            /\ orders[n].orderNumber = orderNumber
                            /\ orders[n].orderDate = orderDate}

\* the table without its unique index
UniqueViolationNever(row) == FALSE

\* orders_branch_id_order_number_order_date_key (migration.sql line 98)
UniqueViolation(row) ==
    FindOrder(row.branchId, row.orderNumber, row.orderDate) # {}

IndexOfName(table, name) ==
    IF \E n \in 1..Len(table) : table[n].name = name
    THEN CHOOSE n \in 1..Len(table) : table[n].name = name
    ELSE 0

\* prisma.category.upsert({where: {name}, update: {}, create: {name}})
UpsertCategory(table, categoryName) ==
    IF IndexOfName(table, categoryName) # 0 THEN table
    ELSE Append(table, [name |-> categoryName])

\* an upsert whose update writes the category and the price of the record at hand
UpsertMenuUpdates(table, menuName, categoryId, basePrice) ==
    IF IndexOfName(table, menuName) # 0
    THEN [table EXCEPT ![IndexOfName(table, menuName)] =
             [name |-> menuName, categoryId |-> categoryId,
              basePrice |-> Max(0, basePrice)]]
    ELSE Append(table, [name |-> menuName, categoryId |-> categoryId,
                        basePrice |-> Max(0, basePrice)])

\* prisma.menu.upsert({where: {name}, update: {}, create: {...}})
UpsertMenu(table, menuName, categoryId, basePrice) ==
    IF IndexOfName(table, menuName) # 0 THEN table
    ELSE Append(table, [name |-> menuName, categoryId |-> categoryId,
                        basePrice |-> Max(0, basePrice)])

(***************************************************************************)
(* A loader process: the locals of main() and of importFile().             *)
(***************************************************************************)
EmptyMap == [k \in {} |-> 0]
MapSet(map, k, v) == [x \in DOMAIN map \cup {k} |-> IF x = k THEN v ELSE map[x]]

IdleLoader ==
    [pc |-> "idle", processedFiles |-> <<>>, file |-> "", orderGroups |-> <<>>,
     g |-> 0, i |-> 0, order |-> 0, categoryId |-> 0, menuId |-> 0,
     categoryCache |-> EmptyMap, menuCache |-> EmptyMap,
     newOrders |-> 0, skippedOrders |-> 0, newItems |-> 0, errors |-> 0,
     rejected |-> FALSE, viewRefreshed |-> 0,
     connected |-> FALSE,     \* the pool holds an open connection to the store
     \* observations
     pending |-> EmptyDir, fileFailures |-> 0, ordersAtStart |-> <<>>,
     itemsAtStart |-> <<>>, thrown |-> 0]

GroupPcs == {"find", "create", "category", "menu", "item"}

CurGroup(l) == l.orderGroups[l.g]
CurItem(l)  == CurGroup(l).items[l.i]

\* the end of one iteration of `for (const file of processedFiles)` in main()
NextFile(l) ==
    [l EXCEPT !.processedFiles = Tail(l.processedFiles), !.file = "",
              !.orderGroups = <<>>, !.g = 0, !.i = 0, !.order = 0,
              !.categoryId = 0, !.menuId = 0,
              !.categoryCache = EmptyMap, !.menuCache = EmptyMap,
              !.newOrders = 0, !.skippedOrders = 0, !.newItems = 0, !.errors = 0,
              !.ordersAtStart = <<>>, !.itemsAtStart = <<>>, !.thrown = 0,
              !.pc = IF Len(l.processedFiles) > 1 THEN "import" ELSE "view"]

\* catch (error) { console.error(`파일 처리 실패 ...`) } of main() (lines 282-284)
FileCatch(l) == NextFile([l EXCEPT !.fileFailures = l.fileFailures + 1])

\* `continue` / the end of one iteration of `for (const [key, orderData] of orderGroups)`
NextGroup(l) ==
    [l EXCEPT !.g = l.g + 1, !.i = 0, !.order = 0, !.categoryId = 0, !.menuId = 0,
              !.pc = IF l.g + 1 > Len(l.orderGroups) THEN "return" ELSE "find"]

\* the group loop without its try/catch: the exception reaches main()
GroupCatchRethrows(l) == FileCatch(l)

\* catch (error) { errors++; ... } of the group loop (lines 224-229)
GroupCatch(l) == NextGroup([l EXCEPT !.errors = l.errors + 1])

Fault == /\ obs.faults < MaxFaults
         /\ obs' = [obs EXCEPT !.faults = obs.faults + 1]

\* findProcessedFiles (lines 71-79)
FindProcessedFiles ==
    IF "processed" \notin env.dirs THEN <<>> ELSE Listing(processed)

\* main(): findProcessedFiles() and the early return (lines 259-264)
Main(p) ==
    /\ ld[p].pc = "idle"
    /\ LET processedFiles == FindProcessedFiles
       IN  ld' = [ld EXCEPT ![p] =
                    [IdleLoader EXCEPT !.processedFiles = processedFiles,
                                       !.pending = processed,
                                       !.pc = IF processedFiles = <<>> THEN "done"
                                              ELSE "import"]]

\* `node 3-import-to-db.js` (lines 314-318)
MainStart(p) ==
    /\ pl.pc \in {"idle", "exited"}
    /\ obs.runs < MaxRuns
    /\ Main(p)
    /\ obs' = [obs EXCEPT !.runs = obs.runs + 1]
    /\ UNCHANGED <<fs, store, pl>>

\* importFile: read the file, ensureBranch, group (lines 110-150)
ImportStart(p) ==
    /\ ld[p].pc = "import"
    /\ LET l    == ld[p]
           file == Head(l.processedFiles)
       IN  IF file \notin DOMAIN processed \/ ~ env.databaseUrl
           THEN \* readFileSync throws, or ensureBranch() rejects: no store to reach
                ld' = [ld EXCEPT ![p] = FileCatch(l)]
           ELSE LET groups == OrderGroups(processed[file])
                IN  ld' = [ld EXCEPT ![p] =
                             [l EXCEPT !.file = file, !.orderGroups = groups, !.g = 1,
                                       !.ordersAtStart = orders,
                                       !.itemsAtStart = items, !.connected = TRUE,
                                       !.pc = IF groups = <<>> THEN "return" ELSE "find"]]
    /\ UNCHANGED <<fs, store, pl, obs>>

\* ensureBranch() rejects: importFile throws, caught in main()
ImportStartThrows(p) ==
    /\ ld[p].pc = "import"
    /\ Fault
    /\ ld' = [ld EXCEPT ![p] = FileCatch(ld[p])]
    /\ UNCHANGED <<fs, store, pl>>

\* the duplicate branch writing to the order found (an upsert with an update)
FindUniqueTouches(p) ==
    /\ ld[p].pc = "find"
    /\ LET l     == ld[p]
           grp   == CurGroup(l)
           found == FindOrder(Branch, grp.orderNumber, grp.orderDate)
       IN  IF found # {}
           THEN /\ orders' = [orders EXCEPT ![CHOOSE n \in found : TRUE].orderStatus = "seen"]
                /\ ld' = [ld EXCEPT ![p] =
                            NextGroup([l EXCEPT !.skippedOrders = l.skippedOrders + 1])]
           ELSE /\ ld' = [ld EXCEPT ![p].pc = "create"]
                /\ UNCHANGED orders
    /\ UNCHANGED <<fs, items, categories, menus, pl, obs>>

\* the duplicate branch going on to insert the group's items under the order found
FindUniqueAddsItems(p) ==
    /\ ld[p].pc = "find"
    /\ LET l     == ld[p]
           grp   == CurGroup(l)
           found == FindOrder(Branch, grp.orderNumber, grp.orderDate)
       IN  IF found # {}
           THEN ld' = [ld EXCEPT ![p] =
                         [l EXCEPT !.skippedOrders = l.skippedOrders + 1,
                                   !.order = CHOOSE n \in found : TRUE,
                                   !.i = 1, !.pc = "category"]]
           ELSE ld' = [ld EXCEPT ![p].pc = "create"]
    /\ UNCHANGED <<fs, store, pl, obs>>

\* prisma.order.findUnique and the duplicate skip (lines 155-168)
FindUnique(p) ==
    /\ ld[p].pc = "find"
    /\ LET l   == ld[p]
           grp == CurGroup(l)
       IN  IF FindOrder(Branch, grp.orderNumber, grp.orderDate) # {}
           THEN ld' = [ld EXCEPT ![p] =
                         NextGroup([l EXCEPT !.skippedOrders = l.skippedOrders + 1])]
           ELSE ld' = [ld EXCEPT ![p].pc = "create"]
    /\ UNCHANGED <<fs, store, pl, obs>>

\* an order.create that, refused by the unique index, goes on to insert the
\* group's items under the Order that is there
CreateOrderAdopts(p) ==
    /\ ld[p].pc = "create"
    /\ LET l   == ld[p]
           grp == CurGroup(l)
       IN  IF UniqueViolation(OrderRow(grp))
           THEN /\ ld' = [ld EXCEPT ![p] =
                            [l EXCEPT !.order = CHOOSE n \in FindOrder(Branch,
                                                   grp.orderNumber, grp.orderDate) : TRUE,
                                      !.thrown = l.thrown + 1,
                                      !.errors = l.errors + 1,
                                      !.i = 1, !.pc = "category"]]
                /\ UNCHANGED orders
           ELSE /\ orders' = Append(orders, OrderRow(grp))
                /\ ld' = [ld EXCEPT ![p] =
                            [l EXCEPT !.order = Len(orders) + 1,
                                      !.newOrders = l.newOrders + 1,
                                      !.i = 1, !.pc = "category"]]
    /\ UNCHANGED <<fs, items, categories, menus, pl, obs>>

\* an order.create that leaves newOrders as it is
CreateOrderUncounted(p) ==
    /\ ld[p].pc = "create"
    /\ LET l   == ld[p]
           grp == CurGroup(l)
       IN  IF UniqueViolation(OrderRow(grp))
           THEN /\ ld' = [ld EXCEPT ![p] = GroupCatch([l EXCEPT !.thrown = l.thrown + 1])]
                /\ UNCHANGED orders
           ELSE /\ orders' = Append(orders, OrderRow(grp))
                /\ ld' = [ld EXCEPT ![p] =
                            [l EXCEPT !.order = Len(orders) + 1, !.i = 1,
                                      !.pc = "category"]]
    /\ UNCHANGED <<fs, items, categories, menus, pl, obs>>

\* prisma.order.create (lines 171-181)
CreateOrder(p) ==
    /\ ld[p].pc = "create"
    /\ LET l   == ld[p]
           grp == CurGroup(l)
       IN  IF UniqueViolation(OrderRow(grp))
           THEN /\ ld' = [ld EXCEPT ![p] = GroupCatch([l EXCEPT !.thrown = l.thrown + 1])]
                /\ UNCHANGED orders
           ELSE /\ orders' = Append(orders, OrderRow(grp))
                /\ ld' = [ld EXCEPT ![p] =
                            [l EXCEPT !.order = Len(orders) + 1,
                                      !.newOrders = l.newOrders + 1,
                                      !.i = 1, !.pc = "category"]]
    /\ UNCHANGED <<fs, items, categories, menus, pl, obs>>

\* categoryCache.get / ensureCategory (lines 186-191)
EnsureCategory(p) ==
    /\ ld[p].pc = "category"
    /\ LET l    == ld[p]
           item == CurItem(l)
       IN  IF item.category \in DOMAIN l.categoryCache
           THEN /\ ld' = [ld EXCEPT ![p] =
                            [l EXCEPT !.categoryId = l.categoryCache[item.category],
                                      !.pc = "menu"]]
                /\ UNCHANGED categories
           ELSE LET table == UpsertCategory(categories, item.category)
                    id    == IndexOfName(table, item.category)
                IN  /\ categories' = table
                    /\ ld' = [ld EXCEPT ![p] =
                                [l EXCEPT !.categoryId = id,
                                          !.categoryCache = MapSet(@, item.category, id),
                                          !.pc = "menu"]]
    /\ UNCHANGED <<fs, orders, items, menus, pl, obs>>

\* menuCache.get / ensureMenu (lines 194-199)
EnsureMenu(p) ==
    /\ ld[p].pc = "menu"
    /\ LET l    == ld[p]
           item == CurItem(l)
       IN  IF item.productName \in DOMAIN l.menuCache
           THEN /\ ld' = [ld EXCEPT ![p] =
                            [l EXCEPT !.menuId = l.menuCache[item.productName],
                                      !.pc = "item"]]
                /\ UNCHANGED menus
           ELSE LET table == UpsertMenu(menus, item.productName, l.categoryId,
                                        item.productPrice)
                    id    == IndexOfName(table, item.productName)
                IN  /\ menus' = table
                    /\ ld' = [ld EXCEPT ![p] =
                                [l EXCEPT !.menuId = id,
                                          !.menuCache = MapSet(@, item.productName, id),
                                          !.pc = "item"]]
    /\ UNCHANGED <<fs, orders, items, categories, pl, obs>>

\* an item loop that ends after the first record of the group
CreateItemEndsGroup(p) ==
    /\ ld[p].pc = "item"
    /\ LET l    == ld[p]
           item == CurItem(l)
           made == [l EXCEPT !.newItems = l.newItems + 1]
       IN  /\ items' = Append(items, ItemRow(l.order, l.menuId, item))
           /\ ld' = [ld EXCEPT ![p] = NextGroup(made)]
    /\ UNCHANGED <<fs, orders, categories, menus, pl, obs>>

\* prisma.orderItem.create; newItems++ (lines 201-217)
CreateItem(p) ==
    /\ ld[p].pc = "item"
    /\ LET l    == ld[p]
           item == CurItem(l)
           made == [l EXCEPT !.newItems = l.newItems + 1]
       IN  /\ items' = Append(items, ItemRow(l.order, l.menuId, item))
           /\ ld' = [ld EXCEPT ![p] =
                       IF l.i < Len(CurGroup(l).items)
                       THEN [made EXCEPT !.i = l.i + 1, !.categoryId = 0, !.menuId = 0,
                                         !.pc = "category"]
                       ELSE NextGroup(made)]
    /\ UNCHANGED <<fs, orders, categories, menus, pl, obs>>

\* a store call made at this point of the group loop (a cache hit makes none)
CallsStore(l) ==
    /\ l.pc \in GroupPcs
    /\ l.pc = "category" => CurItem(l).category \notin DOMAIN l.categoryCache
    /\ l.pc = "menu" => CurItem(l).productName \notin DOMAIN l.menuCache

\* any store call of the group loop rejects: try { ... } catch (lines 153, 224-229)
StoreCallThrows(p) ==
    /\ CallsStore(ld[p])
    /\ Fault
    /\ ld' = [ld EXCEPT ![p] = GroupCatch([ld[p] EXCEPT !.thrown = ld[p].thrown + 1])]
    /\ UNCHANGED <<fs, store, pl>>

\* return { newOrders, skippedOrders, newItems, errors } (line 240)
ImportReturn(p) ==
    /\ ld[p].pc = "return"
    /\ LET l == ld[p]
       IN  /\ obs' = [obs EXCEPT !.calls = Append(@,
                        [proc |-> p, file |-> l.file, orderGroups |-> l.orderGroups,
                         newOrders |-> l.newOrders, skippedOrders |-> l.skippedOrders,
                         newItems |-> l.newItems, errors |-> l.errors,
                         thrown |-> l.thrown, handled |-> l.g - 1,
                         ordersBefore |-> Len(l.ordersAtStart),
                         orderCount |-> Len(orders), itemCount |-> Len(items)])]
           /\ ld' = [ld EXCEPT ![p].pc = "archive"]
    /\ UNCHANGED <<fs, store, pl>>

\* a copy in place of the rename: the source stays in processed/
ArchiveLeavesSource(p) ==
    /\ ld[p].pc = "archive"
    /\ ld[p].file \in DOMAIN processed
    /\ archived' = Put(archived, ld[p].file, processed[ld[p].file])
    /\ env' = MkDir(env, "archived")
    /\ ld' = [ld EXCEPT ![p] = NextFile(ld[p])]
    /\ UNCHANGED <<raw, dec, processed, store, pl, obs>>

\* a load stage that archives a file only when its import counted no error
ArchiveOnlyClean(p) ==
    /\ ld[p].pc = "archive"
    /\ LET l == ld[p]
       IN  IF l.file \notin DOMAIN processed
           THEN /\ ld' = [ld EXCEPT ![p] = FileCatch(l)]
                /\ UNCHANGED <<processed, archived>>
           ELSE IF l.errors > 0
           THEN /\ ld' = [ld EXCEPT ![p] = NextFile(l)]
                /\ UNCHANGED <<processed, archived>>
           ELSE /\ archived' = Put(archived, l.file, processed[l.file])
                /\ processed' = Del(processed, l.file)
                /\ ld' = [ld EXCEPT ![p] = NextFile(l)]
    /\ env' = MkDir(env, "archived")
    /\ UNCHANGED <<raw, dec, store, pl, obs>>

\* archiveProcessedFile: mkdirSync(ARCHIVE_DIR), renameSync(sourcePath, destPath)
\* (lines 243-253)
ArchiveProcessedFile(p) ==
    /\ ld[p].pc = "archive"
    /\ LET l == ld[p]
       IN  IF l.file \notin DOMAIN processed
           THEN /\ ld' = [ld EXCEPT ![p] = FileCatch(l)]     \* renameSync throws
                /\ UNCHANGED <<processed, archived>>
           ELSE /\ archived' = Put(archived, l.file, processed[l.file])
                /\ processed' = Del(processed, l.file)
                /\ ld' = [ld EXCEPT ![p] = NextFile(l)]
    /\ env' = MkDir(env, "archived")
    /\ UNCHANGED <<raw, dec, store, pl, obs>>

\* renameSync throws (permissions, another volume): caught in main()
ArchiveThrows(p) ==
    /\ ld[p].pc = "archive"
    /\ Fault
    /\ ld' = [ld EXCEPT ![p] = FileCatch(ld[p])]
    /\ env' = MkDir(env, "archived")
    /\ UNCHANGED <<raw, dec, processed, archived, store, pl>>

\* ensureSalesRecordsView (lines 287, 304-311); it catches its own error
EnsureSalesRecordsView(p) ==
    /\ ld[p].pc = "view"
    /\ ld' = [ld EXCEPT ![p].viewRefreshed = @ + 1, ![p].pc = "stats"]
    /\ UNCHANGED <<fs, store, pl, obs>>

\* prisma.order.count / prisma.orderItem.count (lines 297-298); they reject, and
\* main() with them, when there is no store to reach
Stats(p) ==
    /\ ld[p].pc = "stats"
    /\ ld' = [ld EXCEPT ![p].pc = "done", ![p].rejected = ~ env.databaseUrl]
    /\ UNCHANGED <<fs, store, pl, obs>>

\* a count rejects: main() rejects
StatsThrows(p) ==
    /\ ld[p].pc = "stats"
    /\ Fault
    /\ ld' = [ld EXCEPT ![p].pc = "done", ![p].rejected = TRUE]
    /\ UNCHANGED <<fs, store, pl>>

\* the process of `node 3-import-to-db.js` ends: .finally(() =>
\* prisma.$disconnect()) closes the connection (lines 314-318)
LoaderExit(p) ==
    /\ ld[p].pc = "done"
    /\ pl.pc # "load"
    /\ ld' = [ld EXCEPT ![p] = IdleLoader]
    /\ UNCHANGED <<fs, store, pl, obs>>

\* the process is killed between two steps
Crash(p) ==
    /\ ld[p].pc \notin {"idle", "done"}
    /\ obs.crashes < MaxCrashes
    /\ obs' = [obs EXCEPT !.crashes = obs.crashes + 1]
    /\ ld' = [ld EXCEPT ![p] = IdleLoader]
    /\ UNCHANGED <<fs, store, pl>>

\* the steps of main() when every call returns
LoaderCalls(p) ==
    \/ ImportStart(p)
    \/ FindUnique(p)
    \/ CreateOrder(p)
    \/ EnsureCategory(p)
    \/ EnsureMenu(p)
    \/ CreateItem(p)
    \/ ImportReturn(p)
    \/ ArchiveProcessedFile(p)
    \/ EnsureSalesRecordsView(p)
    \/ Stats(p)

\* a call of main() failing for a reason outside the program
LoaderThrows(p) ==
    \/ ImportStartThrows(p)
    \/ StoreCallThrows(p)
    \/ ArchiveThrows(p)
    \/ StatsThrows(p)

LoaderStep(p) == LoaderCalls(p) \/ LoaderThrows(p)

(***************************************************************************)
(* 1-decrypt-excel.js.  A workbook is sealed (password protected) or not.  *)
(***************************************************************************)
\* what msoffice-crypto -d writes when it succeeds
Unsealed(workbook) == [workbook EXCEPT !.sealed = FALSE]

\* findEncryptedFiles (lines 16-32)
FindEncryptedFiles == Listing(raw)

\* decryptFile without its existsSync test: the tool runs again on every call
DecryptFileAgain(filename, toolOk) ==
    IF toolOk THEN Put(dec, filename, Unsealed(raw[filename]))
    ELSE Put(dec, filename, raw[filename])

\* decryptFile without the copy of its catch block
DecryptFileNoCopy(filename, toolOk) ==
    IF filename \in DOMAIN dec THEN dec
    ELSE IF toolOk THEN Put(dec, filename, Unsealed(raw[filename]))
    ELSE dec

\* decryptFile (lines 34-62): the directory of decrypted workbooks it leaves;
\* toolOk is whether execSync returned
DecryptFile(filename, toolOk) ==
    IF filename \in DOMAIN dec THEN dec
    ELSE IF toolOk THEN Put(dec, filename, Unsealed(raw[filename]))
    ELSE Put(dec, filename, raw[filename])

DecryptOutcome(filename, toolOk) ==
    IF filename \in DOMAIN dec THEN "skip" ELSE IF toolOk THEN "ok" ELSE "copy"

(***************************************************************************)
(* 2-excel-to-json.js.                                                     *)
(***************************************************************************)
\* findDecryptedFiles (lines 37-48)
FindDecryptedFiles == Listing(dec)

\* The value of a worksheet cell: a JavaScript number (NaN among them), a
\* string (the sequence of its characters), null, undefined, a boolean or an
\* object (a Date, a formula result).
JsVal(t, v, str) == [t |-> t, v |-> v, s |-> str]
Num(n)      == JsVal("number", n, <<>>)
NaN         == JsVal("number", 0, <<"NaN">>)
Str(chars)  == JsVal("string", 0, chars)
JsNull      == JsVal("null", 0, <<>>)
JsUndefined == JsVal("undefined", 0, <<>>)
JsBool(b)   == JsVal("boolean", IF b THEN 1 ELSE 0, <<>>)
JsObject    == JsVal("object", 0, <<>>)
\* the number n + 0.5
Half(n)     == JsVal("number", n, <<".5">>)
\* a Date: its time value in hours since 1899-12-30T00:00Z
JsDate(h)   == JsVal("date", h, <<>>)
\* an ISO 8601 string, kept parsed: the wall-clock time it spells, in hours since
\* 1899-12-30T00:00, and its form: "Z" for "2023-01-01T00:00:00Z", "local" for
\* "2023-01-01T00:00:00" (no offset), "date" for "2023-01-01"
IsoString(wall, form) == JsVal("string", wall, <<"ISO", form>>)

\* !value
Falsy(val) ==
    \/ val.t \in {"null", "undefined"}
    \/ val.t = "string" /\ val.s = <<>>
    \/ val.t = "number" /\ (val = Num(0) \/ val = NaN)
    \/ val = JsBool(FALSE)

Digits == {"0", "1", "2"}
Chars  == Digits \cup {",", "-", " ", "x"}
DigitVal(c) == CASE c = "0" -> 0 [] c = "1" -> 1 [] c = "2" -> 2

\* val.replace(/,/g, '')
RemoveCommas(chars) == SelectSeq(chars, LAMBDA c : c # ",")

\* parseFloat: leading white space is skipped
RECURSIVE TrimStart(_)
TrimStart(chars) ==
    IF chars # <<>> /\ Head(chars) = " " THEN TrimStart(Tail(chars)) ELSE chars

\* parseFloat: the longest prefix that is a decimal literal
RECURSIVE DigitPrefix(_)
DigitPrefix(chars) ==
    IF chars # <<>> /\ Head(chars) \in Digits
    THEN <<Head(chars)>> \o DigitPrefix(Tail(chars))
    ELSE <<>>

RECURSIVE DecimalValue(_, _)
DecimalValue(digits, acc) ==
    IF digits = <<>> THEN acc
    ELSE DecimalValue(Tail(digits), 10 * acc + DigitVal(Head(digits)))

\* parseFloat(string): white space, a sign, the digits that follow; NaN if none;
\* whatever comes after the digits is ignored
ParseFloat(chars) ==
    LET t      == TrimStart(chars)
        neg    == t # <<>> /\ Head(t) = "-"
        digits == DigitPrefix(IF neg THEN Tail(t) ELSE t)
    IN  IF digits = <<>> THEN NaN
        ELSE Num(IF neg THEN 0 - DecimalValue(digits, 0) ELSE DecimalValue(digits, 0))

\* toNumber (lines 76-83)
ToNumber(val) ==
    IF val.t = "number" THEN val
    ELSE IF val.t = "string"
    THEN LET num == ParseFloat(RemoveCommas(val.s))
         IN  IF num = NaN THEN Num(0) ELSE num
    ELSE Num(0)

\* new Date(string).getTime(): the date-time forms without an offset are local
\* time, the date-only form and the forms ending in Z are UTC; NaN for the rest
DateParse(val, tz) ==
    IF Len(val.s) = 2 /\ val.s[1] = "ISO"
    THEN IF val.s[2] = "local" THEN Num(val.v - tz) ELSE Num(val.v)
    ELSE NaN

\* new Date(1899, 11, 30).getTime(): midnight of that day in the host's zone
ExcelEpoch(tz) == 0 - tz

\* parseExcelDate (lines 50-74)
ParseExcelDate(value, tz) ==
    IF Falsy(value) THEN JsNull
    ELSE IF value.t = "date" THEN value
    ELSE IF value.t = "string" /\ DateParse(value, tz) # NaN
    THEN JsDate(DateParse(value, tz).v)
    ELSE IF value.t = "number"
    THEN JsDate(ExcelEpoch(tz) + value.v * 24 + (IF value.s = <<".5">> THEN 12 ELSE 0))
    ELSE JsNull

DigitChar(d) ==
    CASE d = 0 -> "0" [] d = 1 -> "1" [] d = 2 -> "2" [] d = 3 -> "3" [] d = 4 -> "4"
      [] d = 5 -> "5" [] d = 6 -> "6" [] d = 7 -> "7" [] d = 8 -> "8" [] d = 9 -> "9"

RECURSIVE DigitsOf(_)
DigitsOf(n) ==
    IF n < 10 THEN <<DigitChar(n)>> ELSE Append(DigitsOf(n \div 10), DigitChar(n % 10))

\* String(val) of a string, a number or a boolean
StringOf(val) ==
    CASE val.t = "string" -> val.s
      [] val.t = "number" ->
            IF val = NaN THEN <<"N", "a", "N">>
            ELSE (IF val.v < 0 THEN <<"-">> \o DigitsOf(0 - val.v) ELSE DigitsOf(val.v))
                 \o (IF val.s = <<".5">> THEN <<".", "5">> ELSE <<>>)
      [] val.t = "boolean" ->
            IF val.v = 1 THEN <<"t", "r", "u", "e">> ELSE <<"f", "a", "l", "s", "e">>

\* String.prototype.trim
RECURSIVE Trim(_)
Trim(chars) ==
    IF chars # <<>> /\ Head(chars) = " " THEN Trim(Tail(chars))
    ELSE IF chars # <<>> /\ chars[Len(chars)] = " "
    THEN Trim(SubSeq(chars, 1, Len(chars) - 1))
    ELSE chars

\* String(val) kept as it is
CleanStringNoTrim(val) == IF Falsy(val) THEN Str(<<>>) ELSE Str(StringOf(val))

\* cleanString (lines 85-88)
CleanString(val) == IF Falsy(val) THEN Str(<<>>) ELSE Str(Trim(StringOf(val)))

\* Math.floor
MathFloor(num) == IF num = NaN THEN NaN ELSE Num(num.v)

\* Math.max(1, num)
MathMax1(num) == IF num = NaN THEN NaN ELSE Num(Max(1, num.v))

\* value !== null && value !== undefined && value !== ''
IsData(val) == val.t \notin {"null", "undefined"} /\ val # Str(<<>>)

\* hasData (lines 127-145): some cell of the row holds data
HasData(record) ==
    \E field \in DOMAIN record : IsData(record[field])

\* cleanedRecord (lines 153-170); optionPrice, productDiscount, orderDiscount,
\* actualSalesAmount and vatAmount are built as productPrice is
CleanedRecord(record, tz) ==
    [orderBaseDate  |-> ParseExcelDate(record.orderBaseDate, tz),
     orderNumber    |-> CleanString(record.orderNumber),
     orderStartTime |-> ParseExcelDate(record.orderStartTime, tz),
     productName    |-> CleanString(record.productName),
     quantity       |-> MathMax1(MathFloor(ToNumber(record.quantity))),
     productPrice   |-> ToNumber(record.productPrice)]

\* JSON.stringify(records) (line 219) on a date field: Date.prototype.toJSON
DateToJSON(date) == IF date.t = "date" THEN IsoString(date.v, "Z") ELSE JsNull

\* !cleanedRecord.orderNumber || !cleanedRecord.productName (line 173)
MissingRequired(cleanedRecord) ==
    Falsy(cleanedRecord.orderNumber) \/ Falsy(cleanedRecord.productName)

\* the rows processExcelFile keeps (lines 172-178)
HasRequired(row) == row.orderNumber # "" /\ row.productName # ""

\* processExcelFile (lines 90-187) on a readable workbook
ProcessExcelFile(workbook) == SelectSeq(workbook.rows, HasRequired)

(***************************************************************************)
(* run-pipeline.js: runPipeline, with the loops of stages 1 and 2.         *)
(***************************************************************************)
NoRecord ==
    [orderBaseDate |-> JsUndefined, orderNumber |-> JsUndefined,
     orderStartTime |-> JsUndefined, productName |-> JsUndefined,
     quantity |-> JsUndefined, productPrice |-> JsUndefined]

IdlePipeline ==
    [pc |-> "idle", exitCode |-> 0, encryptedFiles |-> <<>>, k |-> 0,
     decryptedFiles |-> <<>>, todo |-> <<>>, outputFiles |-> <<>>,
     alone |-> FALSE,            \* stage 2 run on its own, not from runPipeline
     \* processExcelFile: the rows to come, the row at hand, the records pushed
     sheet |-> <<>>, record |-> NoRecord, cleanedRecord |-> NoRecord,
     records |-> <<>>, skippedRows |-> 0,
     \* observations
     outcome |-> EmptyMap, threw |-> {},
     connected |-> FALSE]     \* the pool's connection was open when the process ended

\* process.exit(code), or the end of the process with that code
Exited(code) == [IdlePipeline EXCEPT !.pc = "exited", !.exitCode = code]

\* main() of stage 2 returns: to runPipeline (run-pipeline.js 36), or, run on its
\* own, to the end of the process (2-excel-to-json.js 234-236)
ExtractDone(l) ==
    IF l.alone THEN [Exited(0) EXCEPT !.alone = TRUE, !.threw = l.threw]
    ELSE [l EXCEPT !.pc = "load"]

\* runPipeline starts; decryptExcel: findEncryptedFiles (lines 16-30 / 64-76)
PipelineStart ==
    /\ pl.pc \in {"idle", "exited"}
    /\ \A p \in Procs : ld[p].pc = "idle"
    /\ obs.runs < MaxRuns
    /\ obs' = [obs EXCEPT !.runs = obs.runs + 1]
    /\ IF "revenue-data" \notin env.dirs
       THEN \* findEncryptedFiles: process.exit(1) (1-decrypt-excel.js 17-20)
            pl' = [Exited(1) EXCEPT !.threw = {"decrypt"}]
       ELSE LET encryptedFiles == FindEncryptedFiles
            IN  pl' = [IdlePipeline EXCEPT !.encryptedFiles = encryptedFiles, !.k = 1,
                                           !.pc = IF encryptedFiles = <<>> THEN "extract"
                                                  ELSE "decrypt"]
    /\ UNCHANGED <<fs, store, ld>>

\* `node 2-excel-to-json.js` (2-excel-to-json.js 234-236)
ExcelToJsonAlone ==
    /\ pl.pc \in {"idle", "exited"}
    /\ \A p \in Procs : ld[p].pc = "idle"
    /\ obs.runs < MaxRuns
    /\ obs' = [obs EXCEPT !.runs = obs.runs + 1]
    /\ pl' = [IdlePipeline EXCEPT !.pc = "extract", !.alone = TRUE]
    /\ UNCHANGED <<fs, store, ld>>

\* one iteration of `for (const file of encryptedFiles)` (1-decrypt-excel.js 79-84)
DecryptStep ==
    /\ pl.pc = "decrypt"
    /\ LET file == pl.encryptedFiles[pl.k]
       IN  \E toolOk \in BOOLEAN :
             /\ toolOk => raw[file].sealed
             /\ dec' = DecryptFile(file, toolOk)
             /\ pl' = [pl EXCEPT !.decryptedFiles = Append(@, file),
                                 !.outcome = MapSet(@, file, DecryptOutcome(file, toolOk)),
                                 !.k = pl.k + 1,
                                 !.pc = IF pl.k < Len(pl.encryptedFiles) THEN "decrypt"
                                        ELSE "extract"]
    /\ UNCHANGED <<raw, processed, archived, env, store, ld, obs>>

\* excelToJson: mkdirSync(OUTPUT_DIR), findDecryptedFiles and the early return
\* (2-excel-to-json.js 189-203); the directory listed exists once mkdirSync returned
ExcelToJson ==
    /\ pl.pc = "extract"
    /\ env' = MkDir(env, "processed")
    /\ LET decryptedFiles == FindDecryptedFiles
       IN  pl' = IF decryptedFiles = <<>> THEN ExtractDone(pl)
                 ELSE [pl EXCEPT !.todo = decryptedFiles, !.pc = "convert"]
    /\ UNCHANGED <<raw, dec, processed, archived, store, ld, obs>>

\* one iteration of `for (const file of decryptedFiles)` (2-excel-to-json.js 210-224)
ConvertStep ==
    /\ pl.pc = "convert"
    /\ LET file     == Head(pl.todo)
           records  == ProcessExcelFile(dec[file])
           written  == IF records = <<>> THEN pl
                       ELSE [pl EXCEPT !.outputFiles = Append(@, file)]
           rest     == [written EXCEPT !.todo = Tail(pl.todo)]
           nextStep == IF Len(pl.todo) > 1 THEN rest ELSE ExtractDone(rest)
       IN  IF dec[file].sealed
           THEN \* workbook.xlsx.readFile rejects; nothing catches it before
                \* runPipeline (exit 1) or main().catch(console.error) (exit 0)
                /\ pl' = [Exited(IF pl.alone THEN 0 ELSE 1) EXCEPT
                             !.threw = pl.threw \cup {"extract"}, !.alone = pl.alone]
                /\ UNCHANGED processed
           ELSE IF records = <<>>
           THEN /\ pl' = nextStep
                /\ UNCHANGED processed
           ELSE /\ processed' = Put(processed, file, records)
                /\ pl' = nextStep
    /\ UNCHANGED <<raw, dec, archived, env, store, ld, obs>>

\* await importToDb() (run-pipeline.js 42)
ImportToDb ==
    /\ pl.pc = "load"
    /\ Main("p1")
    /\ UNCHANGED <<fs, store, pl, obs>>

\* runPipeline with a catch for whatever went wrong in the load stage
PipelineEndStrict ==
    /\ pl.pc = "load"
    /\ ld["p1"].pc = "done"
    /\ pl' = [Exited(IF ld["p1"].rejected \/ obs.faults > 0 THEN 1 ELSE 0) EXCEPT
                !.threw = pl.threw \cup (IF ld["p1"].fileFailures > 0 THEN {"load"}
                                         ELSE {})
                                  \cup (IF ld["p1"].rejected THEN {"main"} ELSE {}),
                !.connected = ld["p1"].connected]
    /\ ld' = [ld EXCEPT !["p1"] = IdleLoader]
    /\ UNCHANGED <<fs, store, obs>>

\* importToDb() settled: the end of runPipeline (run-pipeline.js 44-55), which
\* has no call of prisma.$disconnect(): the process ends with the pool as it is
PipelineEnd ==
    /\ pl.pc = "load"
    /\ ld["p1"].pc = "done"
    /\ pl' = [Exited(IF ld["p1"].rejected THEN 1 ELSE 0) EXCEPT
                !.threw = pl.threw \cup (IF ld["p1"].fileFailures > 0 THEN {"load"}
                                         ELSE {})
                                  \cup (IF ld["p1"].rejected THEN {"main"} ELSE {}),
                !.connected = ld["p1"].connected]
    /\ ld' = [ld EXCEPT !["p1"] = IdleLoader]
    /\ UNCHANGED <<fs, store, obs>>

\* processExcelFile: the callback of worksheet.eachRow on one data row
\* (2-excel-to-json.js 123-179): a row without data is skipped; cleanedRecord is
\* built from the cells; it is pushed unless a required field is missing
CleanRecord ==
    /\ pl.pc \in {"row", "blank", "cleaned"}
    /\ pl.sheet # <<>>
    /\ LET record        == Head(pl.sheet)
           cleanedRecord == CleanedRecord(record, env.timeZone)
           at            == [pl EXCEPT !.sheet = Tail(pl.sheet), !.record = record]
       IN  pl' = IF ~ HasData(record)
                 THEN [at EXCEPT !.skippedRows = @ + 1, !.pc = "blank"]
                 ELSE IF MissingRequired(cleanedRecord)
                 THEN [at EXCEPT !.cleanedRecord = cleanedRecord,
                                 !.skippedRows = @ + 1, !.pc = "cleaned"]
                 ELSE [at EXCEPT !.cleanedRecord = cleanedRecord,
                                 !.records = Append(@, cleanedRecord),
                                 !.pc = "cleaned"]
    /\ UNCHANGED <<fs, store, ld, obs>>

InitObs == [faults |-> 0, crashes |-> 0, runs |-> 0, calls |-> <<>>]

(***************************************************************************)
(* Spec: `node run-pipeline.js`, run after run, over the workbooks of      *)
(* revenue-data.                                                           *)
(***************************************************************************)
BlankRow == [RowA EXCEPT !.productName = ""]
Sheets == {<<BlankRow>>, <<RowA>>, <<RowD, BlankRow>>}
Workbooks == [sealed : BOOLEAN, rows : Sheets]

Init ==
    /\ raw \in UNION {[D -> Workbooks] : D \in SUBSET Files}
    /\ dec = EmptyDir
    /\ processed = EmptyDir
    /\ archived = EmptyDir
    /\ env = Deployed({"revenue-data"})
    /\ orders = <<>>
    /\ items = <<>>
    /\ categories = <<>>
    /\ menus = <<>>
    /\ ld = [p \in Procs |-> IdleLoader]
    /\ pl = IdlePipeline
    /\ obs = InitObs

Next ==
    \/ PipelineStart
    \/ DecryptStep
    \/ ExcelToJson
    \/ ConvertStep
    \/ ImportToDb
    \/ LoaderStep("p1")
    \/ PipelineEnd

Spec == Init /\ [][Next]_vars

(***************************************************************************)
(* Properties of the pipeline, checked under Spec.                         *)
(***************************************************************************)
\* C5: once the loader has archived a file, no JSON for it is pending again and
\* importFile is not at work on it again.
C5_ArchivedNeverReprocessed ==
    \A f \in DOMAIN archived :
        /\ f \notin DOMAIN processed
        /\ \A p \in Procs : ld[p].file # f

\* C6: when main() of the load stage is past its file loop without a file-level
\* failure, no file that was pending at its start is left in processed/ and each
\* is in archived/ under its name with the content it had.
C6_ArchivedIdentical ==
    \A p \in Procs :
        (ld[p].pc \in {"view", "stats", "done"} /\ ld[p].fileFailures = 0) =>
            \A f \in DOMAIN ld[p].pending :
                /\ f \notin DOMAIN processed
                /\ f \in DOMAIN archived
                /\ archived[f] = ld[p].pending[f]

\* a load stage that ended after archiving two pending files
C6_Witness ==
    /\ ld["p1"].pc = "done"
    /\ ld["p1"].fileFailures = 0
    /\ DOMAIN ld["p1"].pending = {"a", "b"}
    /\ DOMAIN archived = {"a", "b"}

\* the workbooks stage 2 can turn into a JSON file
Convertible == {f \in DOMAIN dec : ~ dec[f].sealed /\ ProcessExcelFile(dec[f]) # <<>>}

\* the load stage: a file whose load threw is left pending, the other files of the
\* run are loaded and archived and the view is refreshed.
C9_LoadFailureCaught ==
    \A p \in Procs :
        (ld[p].pc = "done" /\ ld[p].fileFailures > 0) =>
            /\ Cardinality(DOMAIN ld[p].pending \cap DOMAIN processed)
                   <= ld[p].fileFailures
            /\ ld[p].viewRefreshed = 1

\* C9: when the processing of one file has thrown in a stage, the run still
\* converts every other workbook, goes on to the load stage and completes.
C9_FileExceptionCaught ==
    /\ C9_LoadFailureCaught
    /\ (pl.pc = "exited" /\ "extract" \in pl.threw) =>
           /\ pl.exitCode = 0
           /\ \A f \in Convertible : f \in DOMAIN processed \cup DOMAIN archived

\* every candidate handled so far has its -decrypted file, unsealed with the
\* rows of the input when the tool succeeded and equal to the input when it
\* failed, and its name was returned
C10_Outputs ==
    /\ \A n \in 1..Len(pl.decryptedFiles) :
          LET f == pl.decryptedFiles[n]
          IN  /\ f = pl.encryptedFiles[n]
              /\ f \in DOMAIN dec
              /\ pl.outcome[f] = "ok" =>
                     ~ dec[f].sealed /\ dec[f].rows = raw[f].rows
              /\ pl.outcome[f] = "copy" => dec[f] = raw[f]
    /\ pl.pc = "decrypt" => Len(pl.decryptedFiles) = pl.k - 1
    /\ pl.pc \in {"extract", "convert", "load"} =>
           Len(pl.decryptedFiles) = Len(pl.encryptedFiles)

\* the decrypt stage is left only for the extract stage
C10_GoesOn == pl.pc = "decrypt" => pl'.pc \in {"decrypt", "extract"}

\* C10: every candidate handled by the decrypt stage has its -decrypted file,
\* with the workbook unsealed when the tool succeeded and a copy of the input
\* when it failed; its name is returned; the stage handles every candidate and
\* goes on to the extract stage.
C10_DecryptNeverAborts == []C10_Outputs /\ [][C10_GoesOn]_vars

\* the tool failed on the first candidate and the stage went on to the second
C10_Witness ==
    /\ pl.pc = "extract"
    /\ pl.decryptedFiles = <<"a", "b">>
    /\ pl.outcome["a"] = "copy"
    /\ dec["a"] = raw["a"]
    /\ pl.outcome["b"] = "ok"

\* importFile has returned for the file of p and the move succeeds in this step:
\* the file leaves processed/ for archived/ with its content, whatever errors is
C25_Moved ==
    \A p \in Procs :
        (ld[p].pc = "archive" /\ ld'[p] # ld[p] /\ obs' = obs) =>
            /\ ld[p].file \in DOMAIN processed
            /\ ld[p].file \notin DOMAIN processed'
            /\ ld[p].file \in DOMAIN archived'
            /\ archived'[ld[p].file] = processed[ld[p].file]
            /\ ld'[p].fileFailures = ld[p].fileFailures
            /\ store' = store

\* importFile throws, or the move fails, in this step: the file stays pending,
\* the failure is caught in main() and no row is removed
C25_Stays ==
    \A p \in Procs :
        (ld[p].pc \in {"import", "archive"} /\ obs'.faults = obs.faults + 1) =>
            /\ processed' = processed
            /\ archived' = archived
            /\ Head(ld[p].processedFiles) \in DOMAIN processed'
            /\ ld'[p].fileFailures = ld[p].fileFailures + 1
            /\ store' = store

\* a return of importFile is followed by the move, unless the process is killed
C25_ThenArchive ==
    \A p \in Procs :
        (ld[p].pc = "return" /\ ld'[p] # ld[p] /\ obs'.crashes = obs.crashes) =>
            ld'[p].pc = "archive"

\* C25: once importFile has returned for a file, with errors counted or not, the
\* load stage moves the file from processed/ to archived/; when importFile throws
\* or the move fails the file stays pending and the rows committed stay.
C25_ArchivedAfterReturn == [][C25_Moved /\ C25_Stays /\ C25_ThenArchive]_vars

\* a file whose import counted an error is archived, the Order of its group
\* missing from the store
C25_Witness ==
    /\ Len(obs.calls) = 1
    /\ obs.calls[1].errors = 1
    /\ obs.calls[1].file = "a"
    /\ "a" \in DOMAIN archived
    /\ "a" \notin DOMAIN processed
    /\ orders = <<>>

\* the files this run has decrypted that stage 2 can convert and that are not
\* archived yet
Underway ==
    {f \in Convertible : /\ \E n \in 1..Len(pl.decryptedFiles) : pl.decryptedFiles[n] = f
                         /\ f \notin DOMAIN archived}

\* C27: files go through decrypt, extract, group, load and archive one at a
\* time: a stage handles a file only when every file the run took up before it
\* has been archived.
C27_OneFileAtATime ==
    /\ pl.pc = "decrypt" => Underway = {}
    /\ pl.pc = "convert" => Underway \subseteq {Head(pl.todo)}
    /\ \A p \in Procs : ld[p].file # "" => Underway \subseteq {ld[p].file}

\* what the run keeps: within the load stage a file is grouped, loaded and
\* archived before the next one is read
C27_LoadStageOneFile ==
    (/\ ld["p1"].file = "b"
     /\ "a" \in DOMAIN ld["p1"].pending
     /\ ld["p1"].fileFailures = 0)
    => ("a" \in DOMAIN archived /\ "a" \notin DOMAIN processed)

\* and the stages of one file follow one another: a JSON file comes from a
\* decrypted workbook, a load from a JSON file
C27_StagesInOrder ==
    /\ \A f \in DOMAIN dec : f \in DOMAIN raw
    /\ \A f \in DOMAIN processed \cup DOMAIN archived : f \in DOMAIN dec
    /\ ld["p1"].file # "" => ld["p1"].file \in DOMAIN ld["p1"].pending
    /\ pl.pc \in {"decrypt", "extract", "convert"} => ld["p1"].pc = "idle"

\* C24: when a run of the pipeline has ended, normally, after an early return of
\* the load stage or with exit code 1, the connection to the store that the run
\* opened has been released.
C24_ConnectionReleased ==
    (pl.pc = "exited" /\ ~ pl.alone) => ~ pl.connected

\* the paths on which nothing is left open: those that opened no connection
C24_NoneOpened ==
    (pl.pc = "exited" /\ pl.connected) => Len(obs.calls) > 0 \/ obs.faults > 0

\* what the loader reads and groups holds no row that stage 2 drops: every
\* record of a JSON file, pending or archived, and of a group has its order number
\* and its product name
C22_NoneReachesLoader ==
    /\ \A f \in DOMAIN processed : \A n \in 1..Len(processed[f]) :
           HasRequired(processed[f][n])
    /\ \A f \in DOMAIN archived : \A n \in 1..Len(archived[f]) :
           HasRequired(archived[f][n])
    /\ \A p \in Procs : \A g \in 1..Len(ld[p].orderGroups) :
           \A n \in 1..Len(ld[p].orderGroups[g].items) :
               HasRequired(ld[p].orderGroups[g].items[n])
    /\ Len(items) <= Cardinality({<<f, n>> \in Files \X (1..2) :
                         /\ f \in DOMAIN raw
                         /\ n <= Len(raw[f].rows)
                         /\ HasRequired(raw[f].rows[n])})

C15_ViewRefreshedOnce ==
    \A p \in Procs : ld[p].pc = "done" => ld[p].viewRefreshed = 1

\* the same for the runs that found a pending file
C15_RefreshedWhenPending ==
    \A p \in Procs :
        (ld[p].pc = "done" /\ DOMAIN ld[p].pending # {}) => ld[p].viewRefreshed = 1

\* the candidate's output exists: the step returns its name, runs no tool, makes
\* no copy and changes no file
C11_Skip ==
    (pl.pc = "decrypt" /\ pl.encryptedFiles[pl.k] \in DOMAIN dec) =>
        /\ fs' = fs
        /\ pl'.decryptedFiles = Append(pl.decryptedFiles, pl.encryptedFiles[pl.k])
        /\ pl'.outcome[pl.encryptedFiles[pl.k]] = "skip"

\* the decrypt stage of a later run leaves the files as the first run left them
C11_Again == (pl.pc = "decrypt" /\ obs.runs > 1) => fs' = fs

\* C11: decryptFile called when the derived output exists returns its name
\* without decrypting, copying or changing any file, so that a decrypt stage run
\* again leaves the files of the first run.
C11_ExistingOutputSkipped == [][C11_Skip /\ C11_Again]_vars

\* the second run skipped both candidates, one of them a sealed copy the first
\* run had left
C11_Witness ==
    /\ obs.runs = 2
    /\ pl.pc = "extract"
    /\ pl.decryptedFiles = <<"a", "b">>
    /\ pl.outcome["a"] = "skip"
    /\ pl.outcome["b"] = "skip"
    /\ dec["a"].sealed

(***************************************************************************)
(* SpecRace: two `node 3-import-to-db.js` processes over the same          *)
(* processed file, their store calls interleaved; the only exceptions are  *)
(* those the store raises on a conflict or the file system on a lost file. *)
(***************************************************************************)
InitRace ==
    /\ raw = EmptyDir
    /\ dec = EmptyDir
    /\ processed \in [{"a"} -> Contents]
    /\ archived = EmptyDir
    /\ env = Deployed({"revenue-data", "processed"})
    /\ orders = <<>>
    /\ items = <<>>
    /\ categories = <<>>
    /\ menus = <<>>
    /\ ld = [p \in Procs |-> IdleLoader]
    /\ pl = IdlePipeline
    /\ obs = InitObs

NextRace ==
    \E p \in Procs :
        \/ MainStart(p)
        \/ LoaderCalls(p)

SpecRace == InitRace /\ [][NextRace]_vars

\* C2: no two Order rows share (branch, order number, order date).
C2_NaturalKeyUnique ==
    \A m, n \in 1..Len(orders) :
        (/\ orders[m].branchId = orders[n].branchId
         /\ orders[m].orderNumber = orders[n].orderNumber
         /\ orders[m].orderDate = orders[n].orderDate) => m = n

\* a second insert of a triple was refused and one row is persisted for it
C2_Witness ==
    /\ obs.faults = 0
    /\ Len(orders) = 1
    /\ \E p \in Procs : ld[p].thrown = 1 /\ ld[p].errors = 1

\* the Order rows under the natural key of a group
OrdersOfGroup(grp) == FindOrder(Branch, grp.orderNumber, grp.orderDate)

\* both processes are through: every group of the file has one Order under its
\* natural key and that Order one OrderItem per record of the group, and the
\* tables hold nothing else
C29_Final ==
    (\A p \in Procs : ld[p].pc = "done") =>
        \A n \in 1..Len(obs.calls) :
            LET groups == obs.calls[n].orderGroups
            IN  /\ \A g \in 1..Len(groups) :
                      /\ Cardinality(OrdersOfGroup(groups[g])) = 1
                      /\ \A o \in OrdersOfGroup(groups[g]) :
                             Cardinality({k \in 1..Len(items) : items[k].orderId = o})
                                 = Len(groups[g].items)
                /\ Len(orders) = Len(groups)
                /\ Len(items) = Len(archived[obs.calls[n].file])

\* the process whose order.create the unique index refuses counts an error, goes
\* on with its next group and writes nothing
C29_Loser ==
    \A p \in Procs :
        (/\ ld[p].pc = "create"
         /\ ld'[p] # ld[p]
         /\ OrdersOfGroup(CurGroup(ld[p])) # {})
        => /\ store' = store
           /\ ld'[p].errors = ld[p].errors + 1
           /\ ld'[p].newOrders = ld[p].newOrders
           /\ ld'[p].newItems = ld[p].newItems
           /\ ld'[p].g = ld[p].g + 1
           /\ ld'[p].pc \in {"find", "return"}

\* a process inserts items only under the Order it created for the group at
\* hand, and no two processes do so under the same Order
C29_OwnOrder ==
    /\ \A p \in Procs :
          ld[p].pc \in {"category", "menu", "item"} =>
              /\ ld[p].order \in OrdersOfGroup(CurGroup(ld[p]))
              /\ ld[p].order > Len(ld[p].ordersAtStart)
    /\ \A p, q \in Procs :
          (/\ p # q
           /\ ld[p].pc \in {"category", "menu", "item"}
           /\ ld[q].pc \in {"category", "menu", "item"})
          => ld[p].order # ld[q].order

\* C29: two loader processes importing the same processed file at once leave,
\* under every interleaving of their store calls, one Order per natural key and
\* one OrderItem per record of each group; the process whose insert of an Order
\* is refused counts an error and creates no item for it.
C29_RaceLeavesOneOfEach ==
    /\ [](C29_Final /\ C29_OwnOrder /\ C2_NaturalKeyUnique)
    /\ [][C29_Loser]_vars

\* both processes loaded a file of two orders at once; one of them was refused
\* an insert; two Orders and two OrderItems are left
C29_Witness ==
    /\ \A p \in Procs : ld[p].pc = "done"
    /\ Len(obs.calls) = 2
    /\ Len(obs.calls[1].orderGroups) = 2
    /\ \E n \in 1..2 : obs.calls[n].thrown = 1 /\ obs.calls[n].errors = 1
    /\ Len(orders) = 2
    /\ Len(items) = 2

(***************************************************************************)
(* SpecLoad: `node 3-import-to-db.js` over one processed file, run again   *)
(* after a failed archive or a kill.  The store is empty or holds what an  *)
(* earlier load of another, since archived, file left.                     *)
(***************************************************************************)
EarlierFiles == {<<>>} \cup {<<row>> : row \in RecordPool}

\* the tables after a load of a one-row file into the empty store
LoadedOrders(records) ==
    [n \in 1..Len(records) |-> OrderRow(OrderGroups(<<records[n]>>)[1])]
LoadedItems(records) ==
    [n \in 1..Len(records) |-> ItemRow(n, n, records[n])]
LoadedCategories(records) ==
    [n \in 1..Len(records) |-> [name |-> records[n].category]]
LoadedMenus(records) ==
    [n \in 1..Len(records) |->
        [name |-> records[n].productName, categoryId |-> n,
         basePrice |-> Max(0, records[n].productPrice)]]

InitLoad ==
    /\ raw = EmptyDir
    /\ dec = EmptyDir
    /\ processed \in [{"a"} -> Contents]
    /\ \E earlier \in EarlierFiles :
         /\ archived = IF earlier = <<>> THEN EmptyDir ELSE Put(EmptyDir, "b", earlier)
         /\ env = Deployed(IF earlier = <<>> THEN {"revenue-data", "processed"} ELSE Dirs)
         /\ orders = LoadedOrders(earlier)
         /\ items = LoadedItems(earlier)
         /\ categories = LoadedCategories(earlier)
         /\ menus = LoadedMenus(earlier)
    /\ ld = [p \in Procs |-> IdleLoader]
    /\ pl = IdlePipeline
    /\ obs = InitObs

NextLoad ==
    \/ MainStart("p1")
    \/ LoaderStep("p1")
    \/ LoaderExit("p1")
    \/ Crash("p1")

SpecLoad == InitLoad /\ [][NextLoad]_vars

(***************************************************************************)
(* Properties of the loader, checked under SpecLoad.                       *)
(***************************************************************************)
\* the calendar date of a record: the date part of orderStartTime, or of
\* orderBaseDate when orderStartTime is absent
CalendarDate(record) ==
    IF record.orderStartTime # Null THEN record.orderStartTime.date
    ELSE record.orderBaseDate.date

SameOrder(r, s) == r.orderNumber = s.orderNumber /\ CalendarDate(r) = CalendarDate(s)

\* every group of a returned call has an Order row under its natural key
LeftAllOrders(call) == call.newOrders + call.skippedOrders = Len(call.orderGroups)

\* what C1 says of a second call that follows a first call on the same file
SecondCallNoOp(first, second) ==
    /\ second.newOrders = 0
    /\ second.newItems = 0
    /\ second.skippedOrders = Len(second.orderGroups)
    /\ second.orderCount = first.orderCount
    /\ second.itemCount = first.itemCount

Successive(n) ==
    /\ obs.calls[n].file = obs.calls[n + 1].file
    /\ obs.calls[n].orderGroups = obs.calls[n + 1].orderGroups

C3_NoNewRowForPersistedOrder ==
    \A p \in Procs :
        ld[p].file # "" =>
            \A n \in (Len(ld[p].ordersAtStart) + 1)..Len(orders) :
                \A m \in 1..Len(ld[p].ordersAtStart) :
                    ~ /\ orders[n].branchId = orders[m].branchId
                      /\ orders[n].orderNumber = orders[m].orderNumber
                      /\ orders[n].orderDate.date = orders[m].orderDate.date

ItemsOfOrder(n) == {k \in 1..Len(items) : items[k].orderId = n}

\* the rows of a group as one uninterrupted load into an empty store leaves them
GroupComplete(grp) ==
    LET found == FindOrder(Branch, grp.orderNumber, grp.orderDate)
    IN  /\ Cardinality(found) = 1
        /\ \A n \in found : Cardinality(ItemsOfOrder(n)) = Len(grp.items)

\* C4: when importFile has run to completion on a file, after an interruption of
\* an earlier load of it or not, every group of the file has exactly one Order
\* and exactly one OrderItem per record (no store call throwing, no earlier file).
C4_RerunCompletesInterruptedLoad ==
    \A n \in 1..Len(obs.calls) :
        (/\ obs.faults = 0
         /\ "b" \notin DOMAIN archived
         /\ obs.calls[n].errors = 0)
        => \A g \in 1..Len(obs.calls[n].orderGroups) :
               GroupComplete(obs.calls[n].orderGroups[g])

\* the same without an interruption
UninterruptedLoadComplete == obs.crashes = 0 => C4_RerunCompletesInterruptedLoad

\* C7: the groups of a file partition its records, two records being in the same
\* group exactly when they have the same order number and the same calendar date.
C7_GroupsByNumberAndDate ==
    \A p \in Procs :
        (ld[p].file # "" /\ ld[p].file \in DOMAIN processed) =>
            LET records == processed[ld[p].file]
                groups  == ld[p].orderGroups
            IN  /\ \A g \in 1..Len(groups) :
                      /\ groups[g].items # <<>>
                      /\ groups[g].items =
                           SelectSeq(records,
                                     LAMBDA r : SameOrder(r, groups[g].items[1]))
                /\ \A g, h \in 1..Len(groups) :
                      g # h => ~ SameOrder(groups[g].items[1], groups[h].items[1])
                /\ \A n \in 1..Len(records) :
                      \E g \in 1..Len(groups) : SameOrder(records[n], groups[g].items[1])

\* one group holding two different rows of the same order number and date
C7_Witness ==
    /\ ld["p1"].file = "a"
    /\ processed["a"] = <<RowA, RowB>>
    /\ Len(ld["p1"].orderGroups) = 1
    /\ ld["p1"].orderGroups[1].items = <<RowA, RowB>>

\* two groups for one order number on two calendar dates
C7_TwoDates ==
    /\ ld["p1"].file = "a"
    /\ processed["a"] = <<RowA, RowC>>
    /\ Len(ld["p1"].orderGroups) = 2

\* a store call of the group loop of p rejects in this step: a failure of the
\* store, or the unique index refusing the insert
Threw(p) ==
    /\ ld[p].pc \in GroupPcs
    /\ ld'[p] # ld[p]
    /\ obs'.crashes = obs.crashes
    /\ \/ obs'.faults = obs.faults + 1
       \/ ld[p].pc = "create" /\ orders' = orders

\* the step of a rejected store call is the catch of the group loop
C8_Caught ==
    \A p \in Procs :
        Threw(p) =>
            /\ ld'[p].errors = ld[p].errors + 1
            /\ ld'[p].file = ld[p].file
            /\ ld'[p].fileFailures = ld[p].fileFailures
            /\ ld'[p].g = ld[p].g + 1
            /\ ld'[p].pc = IF ld[p].g < Len(ld[p].orderGroups) THEN "find" ELSE "return"
            /\ ld'[p].newOrders = ld[p].newOrders
            /\ ld'[p].skippedOrders = ld[p].skippedOrders
            /\ ld'[p].newItems = ld[p].newItems

\* every returned call counted each rejection and went through every group
C8_Returns ==
    \A n \in 1..Len(obs.calls) :
        /\ obs.calls[n].errors = obs.calls[n].thrown
        /\ obs.calls[n].handled = Len(obs.calls[n].orderGroups)

\* C8: an exception of a store call in the group loop is caught and counted in
\* errors, the loop goes on with the next group of the same file, and importFile
\* returns after the last group; the file-level handler is not reached.
C8_GroupExceptionCaught == [][C8_Caught]_vars /\ []C8_Returns

\* the first group threw and the second group of the file is being loaded
C8_Witness ==
    /\ ld["p1"].pc = "item"
    /\ ld["p1"].g = 2
    /\ ld["p1"].errors = 1
    /\ ld["p1"].thrown = 1

\* the resolution of the current record's Menu fails in this step
MenuFails(p) == Threw(p) /\ ld[p].pc = "menu"

\* the Order of the group stays and the item loop goes on with the next record
C16_Step ==
    \A p \in Procs :
        MenuFails(p) =>
            /\ orders' = orders
            /\ ld[p].i < Len(CurGroup(ld[p]).items) =>
                   /\ ld'[p].g = ld[p].g
                   /\ ld'[p].order = ld[p].order
                   /\ ld'[p].i = ld[p].i + 1
                   /\ ld'[p].pc = "category"

\* C16: when a record's product cannot be resolved to a Menu while the items of a
\* new order are created, the Order stays persisted, that item alone is skipped
\* and the records after it in the group still get their OrderItem.
C16_OnlyItemSkipped == [][C16_Step]_vars

\* the part the loader keeps: the Order stays persisted
C16_OrderStays == [][\A p \in Procs : MenuFails(p) => orders' = orders]_vars

IsPrefix(s, t) == Len(s) <= Len(t) /\ SubSeq(t, 1, Len(s)) = s

\* no row of orders or order_items is changed or removed by a step
C17_Grow == IsPrefix(orders, orders') /\ IsPrefix(items, items')

\* a step that adds an OrderItem is orderItem.create of a process, under the
\* order that process holds
C17_ItemCreated ==
    items' # items =>
        \E p \in Procs :
            /\ ld[p].pc = "item"
            /\ items' = Append(items, ItemRow(ld[p].order, ld[p].menuId, CurItem(ld[p])))

\* the order a process creates items under is the Order this call created for
\* the group at hand; it did not exist when the call began
C17_UnderNewOrder ==
    \A p \in Procs :
        ld[p].pc \in {"category", "menu", "item"} =>
            /\ ld[p].order > Len(ld[p].ordersAtStart)
            /\ ld[p].order <= Len(orders)
            /\ orders[ld[p].order] = OrderRow(CurGroup(ld[p]))

\* C17: Order and OrderItem rows, once created, are never modified or deleted,
\* and OrderItems are added only under an Order created by the same call: a
\* group whose Order already exists adds none.
C17_FactsOnlyGrow == [][C17_Grow /\ C17_ItemCreated]_vars /\ []C17_UnderNewOrder

\* a call that skipped one duplicate order and created another: the rows of the
\* earlier load are as they were
C17_Witness ==
    /\ Len(obs.calls) = 1
    /\ obs.calls[1].skippedOrders = 1
    /\ obs.calls[1].newOrders = 1
    /\ obs.calls[1].newItems = 1
    /\ Len(orders) = 2
    /\ Len(items) = 2
    /\ orders[1] = OrderRow(OrderGroups(archived["b"])[1])

\* no Menu row is changed or removed by a step
C18_Kept == IsPrefix(menus, menus')

\* a Menu row is added by the first record resolved under a name the table does
\* not hold, with that record's category and its price, or 0 if the price is
\* negative
C18_Created ==
    menus' # menus =>
        \E p \in Procs :
            /\ ld[p].pc = "menu"
            /\ LET item == CurItem(ld[p])
               IN  /\ \A n \in 1..Len(menus) : menus[n].name # item.productName
                   /\ menus' = Append(menus,
                         [name |-> item.productName, categoryId |-> ld[p].categoryId,
                          basePrice |-> IF item.productPrice < 0 THEN 0
                                        ELSE item.productPrice])

\* base prices are not negative and a name has one row
C18_NonNegative ==
    \A m, n \in 1..Len(menus) :
        /\ menus[n].basePrice >= 0
        /\ menus[m].name = menus[n].name => m = n

C28_RowsCounted(l) ==
    /\ l.newOrders = Len(orders) - Len(l.ordersAtStart)
    /\ l.newItems = Len(items) - Len(l.itemsAtStart)

\* C28: when importFile is about to return, newOrders + skippedOrders + errors
\* is the number of groups, newOrders the number of Order rows the call created
\* and newItems the number of OrderItem rows it created.
C28_EachGroupCountedOnce ==
    \A p \in Procs :
        ld[p].pc = "return" =>
            /\ ld[p].newOrders + ld[p].skippedOrders + ld[p].errors
                   = Len(ld[p].orderGroups)
            /\ C28_RowsCounted(ld[p])

\* C28, with the group that fails after its Order was created counted twice: no
\* group is left out of the three counters and none is in both newOrders and
\* skippedOrders, a group is in errors and in newOrders only when a store call
\* threw after its Order was created, and the sum is the number of groups when
\* errors is 0; newOrders and newItems count the rows created.
C28_CountersCoverGroups ==
    \A p \in Procs :
        ld[p].pc = "return" =>
            LET l   == ld[p]
                sum == l.newOrders + l.skippedOrders + l.errors
            IN  /\ sum >= Len(l.orderGroups)
                /\ sum <= Len(l.orderGroups) + l.errors
                /\ l.newOrders + l.skippedOrders <= Len(l.orderGroups)
                /\ l.errors <= Len(l.orderGroups)
                /\ l.errors = 0 => sum = Len(l.orderGroups)
                /\ C28_RowsCounted(l)

\* a file of two groups: the Order of the first was created and its item threw,
\* the second is a duplicate; the three counters add up to 3
C28_Witness ==
    /\ ld["p1"].pc = "return"
    /\ Len(ld["p1"].orderGroups) = 2
    /\ ld["p1"].newOrders = 1
    /\ ld["p1"].errors = 1
    /\ ld["p1"].skippedOrders = 1
    /\ ld["p1"].newItems = 0

\* the Category and the Menu of every record of the group are in the store
Resolved(grp) ==
    \A n \in 1..Len(grp.items) :
        /\ IndexOfName(categories, grp.items[n].category) # 0
        /\ IndexOfName(menus, grp.items[n].productName) # 0

\* C26: when importFile is about to return without having counted an error,
\* the Category and the Menu of every record of every group of the file exist,
\* for the groups skipped as duplicates as for the others.
C26_DimensionsResolved ==
    \A p \in Procs :
        (ld[p].pc = "return" /\ ld[p].errors = 0) =>
            \A g \in 1..Len(ld[p].orderGroups) : Resolved(ld[p].orderGroups[g])

\* the same for the calls that created the Order of every group
C26_ResolvedForNewOrders ==
    \A p \in Procs :
        (/\ ld[p].pc = "return"
         /\ ld[p].errors = 0
         /\ ld[p].newOrders = Len(ld[p].orderGroups)) =>
            \A g \in 1..Len(ld[p].orderGroups) : Resolved(ld[p].orderGroups[g])

\* the first record of the file with the order number and calendar date of r
FirstOfOrder(records, r) ==
    records[CHOOSE n \in 1..Len(records) :
                /\ SameOrder(records[n], r)
                /\ \A m \in 1..(n - 1) : ~ SameOrder(records[m], r)]

\* the timestamp of a record: orderStartTime, else orderBaseDate
Timestamp(record) ==
    IF record.orderStartTime # Null THEN record.orderStartTime ELSE record.orderBaseDate

\* the Order row the first record of an order gives
OrderOfFirst(first) ==
    [branchId |-> Branch, orderNumber |-> first.orderNumber,
     orderDate |-> Timestamp(first), orderChannel |-> first.orderChannel,
     orderStatus |-> first.paymentStatus]

\* every Order the call created is the row of the first record, in file order,
\* of the records of that order, whatever the later records hold
C30_Orders ==
    \A p \in Procs :
        ld[p].file # "" =>
            LET records == ld[p].pending[ld[p].file]
            IN  /\ \A n \in (Len(ld[p].ordersAtStart) + 1)..Len(orders) :
                      \E k \in 1..Len(records) :
                          orders[n] = OrderOfFirst(FirstOfOrder(records, records[k]))
                /\ ld[p].pc \in {"category", "menu", "item"} =>
                      orders[ld[p].order] =
                          OrderOfFirst(FirstOfOrder(records, CurItem(ld[p])))

\* the duplicate lookup of a group, when it returns, is made with the timestamp
\* of that first record: the group is skipped exactly when an Order with it exists
C30_Lookup ==
    \A p \in Procs :
        (ld[p].pc = "find" /\ ld'[p] # ld[p] /\ obs' = obs) =>
            LET first == FirstOfOrder(ld[p].pending[ld[p].file],
                                      CurGroup(ld[p]).items[1])
            IN  (ld'[p].pc = "create") <=>
                    (\A n \in 1..Len(orders) :
                        ~ /\ orders[n].branchId = Branch
                          /\ orders[n].orderNumber = first.orderNumber
                          /\ orders[n].orderDate = Timestamp(first))

\* C30: the Order of a group has the timestamp (orderStartTime, else
\* orderBaseDate), the channel and the status of the first record of the group in
\* file order, later records of the group change none of them, and the duplicate
\* lookup is made with that timestamp.
C30_OrderFromFirstRecord == []C30_Orders /\ [][C30_Lookup /\ C17_Grow]_vars

\* the store holds order A100 of 2024-05-01 09:00; a group of two records of
\* that order, the first without a start time, is looked up with the timestamp
\* of the first, not found, and its Order has the timestamp, channel and status
\* of the first
C30_Witness ==
    /\ ld["p1"].pc = "return"
    /\ processed["a"] = <<RowB, RowA>>
    /\ Len(orders) = 2
    /\ orders[1].orderDate = At("2024-05-01", "09:00")
    /\ orders[2] = [branchId |-> Branch, orderNumber |-> "A100",
                    orderDate |-> At("2024-05-01", "00:00"),
                    orderChannel |-> "app", orderStatus |-> "cancel"]
    /\ Len(items) = 3

(***************************************************************************)
(* SpecScenario: one load, every call returning, of one file of up to      *)
(* ScenarioLen records into the empty store.                               *)
(***************************************************************************)
ScenarioLen == 3

Scenarios == SeqsUpTo(RecordPool, ScenarioLen) \ {<<>>}

InitScenario ==
    /\ raw = EmptyDir
    /\ dec = EmptyDir
    /\ processed \in [{"a"} -> Scenarios]
    /\ archived = EmptyDir
    /\ env = Deployed({"revenue-data", "processed"})
    /\ orders = <<>>
    /\ items = <<>>
    /\ categories = <<>>
    /\ menus = <<>>
    /\ ld = [p \in Procs |-> IdleLoader]
    /\ pl = IdlePipeline
    /\ obs = InitObs

NextScenario ==
    \/ MainStart("p1")
    \/ LoaderCalls("p1")
    \/ LoaderExit("p1")

SpecScenario == InitScenario /\ [][NextScenario]_vars

Range(seq) == {seq[n] : n \in 1..Len(seq)}

\* C19: when importFile is about to return from one file loaded without group
\* errors into the empty store, there is one Order per (order number, calendar
\* date) of the file, one OrderItem per record, each under the Order of its group,
\* one Menu per product name and one Category per category name.
C19_OneRowEach ==
    \A p \in Procs :
        (ld[p].pc = "return" /\ ld[p].errors = 0 /\ ld[p].ordersAtStart = <<>>) =>
            LET records == Range(processed[ld[p].file])
            IN  /\ Len(orders) =
                     Cardinality({<<r.orderNumber, CalendarDate(r)>> : r \in records})
                /\ Len(items) = Len(processed[ld[p].file])
                /\ Len(menus) = Cardinality({r.productName : r \in records})
                /\ Len(categories) = Cardinality({r.category : r \in records})
                /\ ld[p].newOrders = Len(orders)
                /\ ld[p].newItems = Len(items)
                /\ \A g \in 1..Len(ld[p].orderGroups) :
                      GroupComplete(ld[p].orderGroups[g])

\* three rows, two of one order and one of the same number on another date: two
\* Orders, three OrderItems, Menu Cola created once
C19_Witness ==
    /\ ld["p1"].pc = "return"
    /\ processed["a"] = <<RowA, RowB, RowC>>
    /\ Len(orders) = 2
    /\ Len(items) = 3
    /\ menus = <<[name |-> "Cola", categoryId |-> 1, basePrice |-> 1000]>>
    /\ \A k \in 1..3 : items[k].menuId = 1

(***************************************************************************)
(* SpecEnv: the pipeline, stage 2 and stage 3 started in any deployment:   *)
(* directories present or not, DATABASE_URL set or not.  With no           *)
(* DATABASE_URL the pool has no server to reach and every store call       *)
(* rejects.                                                                *)
(***************************************************************************)
EnvDirs == {{}, {"revenue-data"}, {"revenue-data", "processed"}, Dirs}

InitEnv ==
    /\ env \in [dirs : EnvDirs, databaseUrl : BOOLEAN, timeZone : {9}]
    /\ raw \in IF "revenue-data" \in env.dirs
                THEN UNION {[D -> Workbooks] : D \in SUBSET {"a"}}
                ELSE {EmptyDir}
    /\ dec = EmptyDir
    /\ processed \in IF "processed" \in env.dirs
                      THEN {EmptyDir, Put(EmptyDir, "b", <<RowC>>)}
                      ELSE {EmptyDir}
    /\ archived = EmptyDir
    /\ orders = <<>>
    /\ items = <<>>
    /\ categories = <<>>
    /\ menus = <<>>
    /\ ld = [p \in Procs |-> IdleLoader]
    /\ pl = IdlePipeline
    /\ obs = InitObs

NextEnv ==
    \/ PipelineStart
    \/ DecryptStep
    \/ ExcelToJsonAlone
    \/ ExcelToJson
    \/ ConvertStep
    \/ ImportToDb
    \/ PipelineEnd
    \/ MainStart("p1")
    \/ LoaderCalls("p1")
    \/ LoaderExit("p1")

SpecEnv == InitEnv /\ [][NextEnv]_vars

\* C12: with DATABASE_URL absent nothing is loaded or archived and a run of the
\* pipeline ends with a non-zero exit code, whatever the directories hold.
C12_MissingUrlFatal ==
    ~ env.databaseUrl =>
        /\ orders = <<>>
        /\ items = <<>>
        /\ archived = EmptyDir
        /\ (pl.pc = "exited" /\ ~ pl.alone) => pl.exitCode # 0

\* the part of C12 the program keeps: nothing is loaded or archived
C12_NothingLoaded ==
    ~ env.databaseUrl => (orders = <<>> /\ items = <<>> /\ archived = EmptyDir)

\* the run ends here with a non-zero exit code and has created nothing
C13_Fatal == pl'.pc = "exited" /\ pl'.exitCode # 0 /\ fs' = fs

\* stage 1 lists revenue-data and it does not exist
C13_Stage1 == (PipelineStart /\ "revenue-data" \notin env.dirs) => C13_Fatal

\* stage 2 starts, on its own or from the pipeline, and revenue-data does not exist
C13_Stage2 == (ExcelToJson /\ "revenue-data" \notin env.dirs) => C13_Fatal

\* stage 3 lists processed/ and it does not exist: main() does not go on as if
\* the directory were empty
C13_Stage3 ==
    \A p \in Procs :
        ((MainStart(p) \/ ImportToDb) /\ ld'[p] # ld[p] /\ "processed" \notin env.dirs)
            => (fs' = fs /\ ld'[p].rejected)

\* C13: a stage that lists its input directory when the directory does not exist
\* ends the run with a non-zero exit code, creates no file or directory, and no
\* later stage runs.
C13_MissingDirFatal == [][C13_Stage1 /\ C13_Stage2 /\ C13_Stage3]_vars

\* the case the program keeps: the pipeline entry point with revenue-data missing
C13_PipelineFatal == [][C13_Stage1]_vars

(***************************************************************************)
(* SpecCells: processExcelFile over the data rows of a worksheet: one row  *)
(* whose price or quantity cell holds any value of Cells or QuantityCells, *)
(* one row whose date cells hold values of DateCells in a host of any zone *)
(* of TimeZones, or a row whose text cells hold values of NameCells before *)
(* or after a well-formed row.                                             *)
(***************************************************************************)
Cells ==
    {Num(n) : n \in {0 - 1, 0, 1200}} \cup {NaN}
    \cup {Str(chars) : chars \in SeqsUpTo(Chars, MaxChars)}
    \cup {JsNull, JsUndefined, JsBool(TRUE), JsBool(FALSE), JsObject}

QuantityCells ==
    {Num(n) : n \in {0 - 1, 0, 3}}
    \cup {Half(2), NaN, Str(<<"2">>), Str(<<"x">>), JsNull}

NameCells ==
    {Str(chars) : chars \in SeqsUpTo({" ", "A"}, MaxNameChars)}
    \cup {JsNull, JsUndefined, Num(0), Num(12), JsBool(TRUE)}

\* 2023-01-01 is day 44927 of the Excel calendar
Day2023 == 44927

DateCells ==
    {Num(Day2023), Half(Day2023), JsDate(Day2023 * 24), Str(<<"x">>), JsNull}
    \cup {IsoString(Day2023 * 24, form) : form \in {"Z", "local", "date"}}

\* hours east of UTC: America/Bogota, UTC, Asia/Seoul
TimeZones == {0 - 5, 0, 9}

GoodRow ==
    [orderBaseDate |-> Num(45413), orderNumber |-> Str(<<"A", "1">>),
     orderStartTime |-> JsNull, productName |-> Str(<<"A">>),
     quantity |-> Num(1), productPrice |-> Num(1000)]

EmptyRow == [field \in DOMAIN GoodRow |-> JsNull]

NameRows ==
    {[GoodRow EXCEPT !.orderNumber = number, !.productName = name] :
        number \in NameCells, name \in NameCells}
    \cup {EmptyRow}

DateSheets ==
    {<<[GoodRow EXCEPT !.orderBaseDate = base, !.orderStartTime = start]>> :
        base \in DateCells, start \in DateCells}

CellSheets ==
    {<<[GoodRow EXCEPT !.productPrice = cell]>> : cell \in Cells}
    \cup {<<[GoodRow EXCEPT !.quantity = cell]>> : cell \in QuantityCells}
    \cup UNION {{<<row>>, <<row, GoodRow>>, <<GoodRow, row>>} : row \in NameRows}
    \cup DateSheets

InitCells ==
    /\ raw = EmptyDir
    /\ dec = EmptyDir
    /\ processed = EmptyDir
    /\ archived = EmptyDir
    /\ orders = <<>>
    /\ items = <<>>
    /\ categories = <<>>
    /\ menus = <<>>
    /\ ld = [p \in Procs |-> IdleLoader]
    /\ \E tz \in TimeZones :
         /\ env = [Deployed({"revenue-data", "processed"}) EXCEPT !.timeZone = tz]
         /\ pl \in {[IdlePipeline EXCEPT !.pc = "row", !.sheet = sheet] :
                       sheet \in IF tz = 9 THEN CellSheets ELSE DateSheets}
    /\ obs = InitObs

NextCells == CleanRecord

SpecCells == InitCells /\ [][NextCells]_vars

\* a numeric string: digits, with thousands separators anywhere and a leading
\* minus sign, white space around it left aside
RECURSIVE Strip(_)
Strip(chars) ==
    IF chars # <<>> /\ Head(chars) = " " THEN Strip(Tail(chars))
    ELSE IF chars # <<>> /\ chars[Len(chars)] = " "
    THEN Strip(SubSeq(chars, 1, Len(chars) - 1))
    ELSE chars

Unsigned(chars) ==
    LET body == SelectSeq(Strip(chars), LAMBDA c : c # ",")
    IN  IF body # <<>> /\ Head(body) = "-" THEN Tail(body) ELSE body

IsNumericString(chars) ==
    /\ Unsigned(chars) # <<>>
    /\ \A n \in 1..Len(Unsigned(chars)) : Unsigned(chars)[n] \in Digits

RECURSIVE SumOfDigits(_, _)
SumOfDigits(digits, n) ==
    IF n > Len(digits) THEN 0
    ELSE DigitVal(digits[n]) * 10 ^ (Len(digits) - n) + SumOfDigits(digits, n + 1)

NumericValue(chars) ==
    IF "-" \in Range(Strip(chars)) THEN 0 - SumOfDigits(Unsigned(chars), 1)
    ELSE SumOfDigits(Unsigned(chars), 1)

\* C20: toNumber returns a number unchanged, the value of a numeric string with
\* its thousands separators removed, and 0 for every other value: null,
\* undefined, the empty string, a string that is not numeric, a boolean, an
\* object.
C20_ToNumber ==
    pl.pc = "cleaned" =>
        LET val == pl.record.productPrice
            out == pl.cleanedRecord.productPrice
        IN  IF val.t = "number" THEN out = val
            ELSE IF val.t = "string" /\ IsNumericString(val.s)
            THEN out = Num(NumericValue(val.s))
            ELSE out = Num(0)

\* a string holds a digit somewhere
HasDigit(chars) == \E n \in 1..Len(chars) : chars[n] \in Digits

\* what toNumber keeps: numbers unchanged, numeric strings parsed, 0 for every
\* value that is not a number and holds no digit; the result is always a number
C20_ExceptDigitPrefix ==
    pl.pc = "cleaned" =>
        LET val == pl.record.productPrice
            out == pl.cleanedRecord.productPrice
        IN  /\ out.t = "number"
            /\ val.t = "number" => out = val
            /\ (val.t = "string" /\ IsNumericString(val.s)) =>
                   out = Num(NumericValue(val.s))
            /\ (val.t # "number" /\ ~ (val.t = "string" /\ HasDigit(val.s))) =>
                   out = Num(0)

\* the four cells of the spec's example: "1,200", 1200, "" and null
C20_Example ==
    (pl.pc = "cleaned" /\ pl.record.productPrice \in
        {Str(<<"1", ",", "2", "0", "0">>), Num(1200)})
    => pl.cleanedRecord.productPrice = Num(1200)

\* the date part of the grouping key the loader derives from a date field of an
\* emitted record: new Date(<the JSON string>).toISOString().split('T')[0]
KeyDatePart(date) == IsoDatePart(DateParse(DateToJSON(date), env.timeZone).v)

\* a row with the serial 44927 in one date cell and "2023-01-01T00:00:00Z" in
\* the other has been cleaned
C21_Case ==
    /\ pl.pc = "cleaned"
    /\ pl.record.orderBaseDate = Num(Day2023)
    /\ pl.record.orderStartTime = IsoString(Day2023 * 24, "Z")

\* C21: parseExcelDate of the serial 44927 and of "2023-01-01T00:00:00Z" give
\* timestamps with the same date part in the loader's grouping key, in a host of
\* any time zone.
C21_SameDatePart ==
    C21_Case =>
        KeyDatePart(pl.cleanedRecord.orderBaseDate)
            = KeyDatePart(pl.cleanedRecord.orderStartTime)

\* the same in the hosts at or west of UTC
C21_WestOfUtc == env.timeZone <= 0 => C21_SameDatePart

\* the year, month and day of getFullYear, getMonth and getDate: the number of
\* the day in the host's zone
LocalDay(date) == (date.v + env.timeZone) \div 24

\* the same components in local time, in the hosts at or east of UTC
C21_LocalEastOfUtc ==
    (C21_Case /\ env.timeZone >= 0) =>
        LocalDay(pl.cleanedRecord.orderBaseDate)
            = LocalDay(pl.cleanedRecord.orderStartTime)

\* a cell that is missing, or blank once trimmed
BlankCell(cell) ==
    \/ cell.t \in {"null", "undefined"}
    \/ cell.t = "string" /\ \A n \in 1..Len(cell.s) : cell.s[n] = " "

\* the row at hand lacks its order number or its product name: the callback
\* pushes nothing and counts the row as skipped
C22_Dropped ==
    (/\ pl.sheet # <<>>
     /\ pl' # pl
     /\ BlankCell(Head(pl.sheet).orderNumber) \/ BlankCell(Head(pl.sheet).productName))
    => /\ pl'.records = pl.records
       /\ pl'.skippedRows = pl.skippedRows + 1

\* every record pushed has an order number and a product name that are strings
\* holding a character that is not a space
C22_Emitted ==
    \A n \in 1..Len(pl.records) :
        /\ pl.records[n].orderNumber.t = "string"
        /\ pl.records[n].productName.t = "string"
        /\ ~ BlankCell(pl.records[n].orderNumber)
        /\ ~ BlankCell(pl.records[n].productName)

\* C22: a row whose order number or product name is missing or blank after
\* trimming is never pushed to the records processExcelFile returns, and every
\* record pushed has a non-empty order number and product name.
C22_BlankRowsDropped == [][C22_Dropped]_vars /\ []C22_Emitted

\* a row whose product name is two spaces was dropped and the well-formed row
\* after it pushed
C22_Witness ==
    /\ pl.sheet = <<>>
    /\ pl.pc = "cleaned"
    /\ pl.skippedRows = 1
    /\ Len(pl.records) = 1
    /\ pl.records[1].productName = Str(<<"A">>)
    /\ pl.record = GoodRow

\* a number that is an integer
IsInteger(num) == num.t = "number" /\ num.s = <<>>

\* C23: every record pushed has a productPrice (and the numeric fields built
\* the same way) that is a number >= 0 and a quantity that is an integer >= 1,
\* whatever the cells of the row hold.
C23_NonNegative ==
    \A n \in 1..Len(pl.records) :
        /\ pl.records[n].productPrice.t = "number"
        /\ pl.records[n].productPrice # NaN
        /\ pl.records[n].productPrice.v >= 0
        /\ IsInteger(pl.records[n].quantity)
        /\ pl.records[n].quantity.v >= 1

\* what the cleaning keeps: the quantity of a pushed record is an integer >= 1
\* unless the cell held NaN, and the numeric fields are numbers
C23_QuantityAtLeastOne ==
    \A n \in 1..Len(pl.records) :
        /\ pl.records[n].productPrice.t = "number"
        /\ pl.record.quantity # NaN =>
               (IsInteger(pl.records[n].quantity) /\ pl.records[n].quantity.v >= 1)

====
